---- MODULE Spec2Model ----
(***************************************************************************)
(* A model of node-pbkdf2 (src/index.js): the random token generator uid,  *)
(* the '::' record codec, the hasher constructor and the four operations   *)
(* encryptPassword / encryptPasswordSync / checkPassword /                 *)
(* checkPasswordSync.                                                      *)
(*                                                                         *)
(* JavaScript strings are sequences of one-character strings, Buffers are  *)
(* sequences of bytes 0..255.  A JavaScript number is a record             *)
(* [nan, n]; a possibly undefined string is a record [def, s].             *)
(***************************************************************************)
EXTENDS Integers, Sequences, FiniteSets, TLC

VARIABLES hashers, calls, derivedKey, uidv, codec

vars == <<hashers, calls, derivedKey, uidv, codec>>

----------------------------------------------------------------------------
(* Bounds of the model *)

\* calls made on the hashers in one behaviour
MaxCalls == 2

\* largest length handed to uid in the token generator's specification
MaxUidLen == 13

----------------------------------------------------------------------------
(* Characters *)

Digits == <<"0", "1", "2", "3", "4", "5", "6", "7", "8", "9">>

\* the base64 alphabet of Buffer.prototype.toString('base64'), value 0 first
B64Alphabet ==
  <<"A", "B", "C", "D", "E", "F", "G", "H", "I", "J", "K", "L", "M",
    "N", "O", "P", "Q", "R", "S", "T", "U", "V", "W", "X", "Y", "Z",
    "a", "b", "c", "d", "e", "f", "g", "h", "i", "j", "k", "l", "m",
    "n", "o", "p", "q", "r", "s", "t", "u", "v", "w", "x", "y", "z">>
  \o Digits \o <<"+", "/">>

AllChars == B64Alphabet \o <<"=", ":", " ", "-">>

CharCodes ==
  [c \in {AllChars[i] : i \in 1..Len(AllChars)} |->
     CHOOSE i \in 1..Len(AllChars) : AllChars[i] = c]

CharCode(c) == CharCodes[c]

DigitChars == {Digits[i] : i \in 1..10}

IsDigit(c) == c \in DigitChars

\* the digits are characters 53..62 of AllChars
DigitValue(c) == CharCode(c) - 53

Str(s) == [def |-> TRUE, s |-> s]

Undefined == [def |-> FALSE, s |-> <<>>]

Num(n) == [nan |-> FALSE, n |-> n]

NaN == [nan |-> TRUE, n |-> 0]

\* JavaScript truthiness of a possibly undefined string and of a number
TruthyStr(v) == v.def /\ v.s # <<>>

TruthyNum(v) == ~v.nan /\ v.n # 0

----------------------------------------------------------------------------
(* Buffer.prototype.toString('base64') *)

\* character k (from 1) of the base64 text of the bytes b: each group of
\* three bytes gives four characters of six bits, a last group of one or
\* two bytes is filled with zero bits and padded with '='
Base64CharAt(b, k) ==
  LET g   == 3 * ((k - 1) \div 4)
      pos == (k - 1) % 4
      b1  == b[g + 1]
      b2  == IF g + 2 <= Len(b) THEN b[g + 2] ELSE 0
      b3  == IF g + 3 <= Len(b) THEN b[g + 3] ELSE 0
  IN  IF pos = 0 THEN B64Alphabet[(b1 \div 4) + 1]
      ELSE IF pos = 1 THEN B64Alphabet[((b1 % 4) * 16 + (b2 \div 16)) + 1]
      ELSE IF pos = 2 THEN
        IF g + 2 <= Len(b) THEN B64Alphabet[((b2 % 16) * 4 + (b3 \div 64)) + 1] ELSE "="
      ELSE
        IF g + 3 <= Len(b) THEN B64Alphabet[(b3 % 64) + 1] ELSE "="

\* a base64 that encodes the complete groups of three bytes only
Base64WholeGroups(b) == [k \in 1..(4 * (Len(b) \div 3)) |-> Base64CharAt(b, k)]

Base64(b) == [k \in 1..(4 * ((Len(b) + 2) \div 3)) |-> Base64CharAt(b, k)]

\* String.prototype.slice(0, n) for n >= 0
Slice0(s, n) == SubSeq(s, 1, IF n < Len(s) THEN n ELSE Len(s))

----------------------------------------------------------------------------
(* crypto.randomBytes: the entropy source.  A seed <<a, b>> names one of   *)
(* the byte streams the source may deliver; byte i of it is a + b*i.       *)

RandomBytes(len, seed) == [i \in 1..len |-> (seed[1] + seed[2] * i) % 256]

\* the streams drawn by the hasher's specification
Seeds == { <<0, 0>>, <<131, 77>> }

\* the streams drawn by the token generator's specification
UidSeeds == { <<a, b>> : a \in {0, 255, 104}, b \in {0, 1, 77} }

\* a uid that forgets to cut the base64 text to len characters
uidUncut(len, seed) == Base64(RandomBytes(len, seed))

\* NodePbkdf2.uid
uid(len, seed) == Slice0(Base64(RandomBytes(len, seed)), len)

----------------------------------------------------------------------------
(* The record codec *)

\* Number::toString of an integer below 10^21 (string concatenation with a
\* number operand)
RECURSIVE NatToString(_)
NatToString(n) ==
  IF n < 10 THEN <<Digits[n + 1]>>
  ELSE NatToString(n \div 10) \o <<Digits[(n % 10) + 1]>>

NumberToString(n) == IF n < 0 THEN <<"-">> \o NatToString(-n) ELSE NatToString(n)

Sep == <<":", ":">>

\* NodePbkdf2.serializeEncryptedPassword
serializeEncryptedPassword(encryptedPassword) ==
  encryptedPassword.salt \o Sep \o
  encryptedPassword.derivedKey \o Sep \o
  NumberToString(encryptedPassword.derivedKeyLength) \o Sep \o
  NumberToString(encryptedPassword.iterations)

\* String.prototype.split('::'): the separators are found left to right,
\* each search starting after the previous separator; start is where the
\* current item begins, i where the search stands
RECURSIVE SplitFrom(_, _, _)
SplitFrom(s, start, i) ==
  IF i > Len(s) THEN << SubSeq(s, start, Len(s)) >>
  ELSE IF i < Len(s) /\ s[i] = ":" /\ s[i + 1] = ":"
    THEN << SubSeq(s, start, i - 1) >> \o SplitFrom(s, i + 2, i + 2)
    ELSE SplitFrom(s, start, i + 1)

Split(s) == SplitFrom(s, 1, 1)

\* items[i] of a JavaScript array, 0-based: undefined past the end
Item(items, i) == IF i + 1 <= Len(items) THEN Str(items[i + 1]) ELSE Undefined

RECURSIVE SkipSpaces(_)
SkipSpaces(s) == IF s # <<>> /\ s[1] = " " THEN SkipSpaces(Tail(s)) ELSE s

\* the value of the longest prefix of decimal digits of s, acc so far
RECURSIVE DigitsValue(_, _)
DigitsValue(s, acc) ==
  IF s # <<>> /\ IsDigit(s[1])
    THEN DigitsValue(Tail(s), acc * 10 + DigitValue(s[1]))
    ELSE acc

\* parseInt(v, 10): undefined is converted to the string "undefined";
\* leading white space is skipped, one sign is read, then the longest
\* prefix of digits; NaN when there is no digit
parseInt(v) ==
  IF ~v.def THEN NaN
  ELSE LET t    == SkipSpaces(v.s)
           neg  == t # <<>> /\ t[1] = "-"
           sg   == t # <<>> /\ (t[1] = "-" \/ t[1] = "+")
           body == IF sg THEN Tail(t) ELSE t
       IN  IF body = <<>> \/ ~IsDigit(body[1]) THEN NaN
           ELSE Num((IF neg THEN -1 ELSE 1) * DigitsValue(body, 0))

\* a deserialization that reads the iterations from items[2] as well
deserializeSameItem(encryptedPassword) ==
  LET items == Split(encryptedPassword)
  IN  [ salt             |-> Item(items, 0),
        derivedKey       |-> Item(items, 1),
        derivedKeyLength |-> parseInt(Item(items, 2)),
        iterations       |-> parseInt(Item(items, 2)) ]

\* NodePbkdf2.deserializeEncryptedPassword
deserializeEncryptedPassword(encryptedPassword) ==
  LET items == Split(encryptedPassword)
  IN  [ salt             |-> Item(items, 0),
        derivedKey       |-> Item(items, 1),
        derivedKeyLength |-> parseInt(Item(items, 2)),
        iterations       |-> parseInt(Item(items, 3)) ]

----------------------------------------------------------------------------
(* crypto.pbkdf2 / crypto.pbkdf2Sync: the library's key derivation.  It is *)
(* a deterministic function of its five arguments that yields keylen       *)
(* bytes, the first keylen bytes of one stream per (password, salt,        *)
(* iterations, digest); it throws on a digest it does not know and on      *)
(* iterations or keylen outside its range.  The HMAC arithmetic is the     *)
(* library's; Pbkdf2Seed and Pbkdf2Byte fix one function of that shape,    *)
(* whose bytes depend on every argument.                                   *)

SupportedDigests == {"sha1", "sha256", "sha512"}

DigestCode(digest) ==
  CASE digest = "sha1"   -> 1
    [] digest = "sha256" -> 2
    [] digest = "sha512" -> 3
    [] OTHER             -> 0

RECURSIVE StrHash(_, _)
StrHash(s, acc) ==
  IF s = <<>> THEN acc
  ELSE StrHash(Tail(s), (acc * 31 + CharCode(s[1])) % 65521)

\* what the stream of (password, salt, iterations, digest) is derived from
Pbkdf2Seed(password, salt, iterations, digest) ==
  (StrHash(password, 7) * 3 + StrHash(salt, 11) * 5
   + (iterations % 65521) * 17 + DigestCode(digest) * 101) % 1021

\* byte j of the stream
Pbkdf2Byte(sd, j) == ((sd + j) * (sd + 2 * j + 1)) % 256

Pbkdf2ArgsOk(iterations, keylen, digest) ==
  /\ digest \in SupportedDigests
  /\ iterations >= 1 /\ iterations <= 2147483647
  /\ keylen >= 0 /\ keylen <= 2147483647

\* the derivation's result, [err, key]: err when it throws (sync) or hands
\* an error to its callback
pbkdf2Sync(password, salt, iterations, keylen, digest) ==
  IF Pbkdf2ArgsOk(iterations, keylen, digest)
    THEN LET sd == Pbkdf2Seed(password, salt, iterations, digest)
         IN  [ err |-> FALSE, key |-> [j \in 1..keylen |-> Pbkdf2Byte(sd, j)] ]
    ELSE [ err |-> TRUE, key |-> <<>> ]

----------------------------------------------------------------------------
(* The hasher *)

DefaultIterations == 10000

DefaultSaltLength == 12

DefaultDerivedKeyLength == 30

DefaultDigest == "sha512"

\* an option left out is 0 (a number) or "" (the digest): both are falsy,
\* as undefined is
NoOptions == [iterations |-> 0, saltLength |-> 0, derivedKeyLength |-> 0, digest |-> ""]

\* function NodePbkdf2 (options)
NodePbkdf2(options) ==
  [ iterations       |-> IF options.iterations # 0
                           THEN options.iterations ELSE DefaultIterations,
    saltLength       |-> IF options.saltLength # 0
                           THEN options.saltLength ELSE DefaultSaltLength,
    derivedKeyLength |-> IF options.derivedKeyLength # 0
                           THEN options.derivedKeyLength ELSE DefaultDerivedKeyLength,
    digest           |-> IF options.digest # ""
                           THEN options.digest ELSE DefaultDigest ]

\* the options the hashers are constructed with: none, and three full
\* sets, one of them naming a digest the library does not know
OptionsList ==
  << NoOptions,
     [iterations |-> 2, saltLength |-> 2, derivedKeyLength |-> 4, digest |-> "sha512"],
     [iterations |-> 3, saltLength |-> 4, derivedKeyLength |-> 2, digest |-> "sha256"],
     [iterations |-> 2, saltLength |-> 2, derivedKeyLength |-> 4, digest |-> "md0"] >>

HasherIds == {1, 2}

Passwords == { <<"p", "w">>, <<"p", "w", "x">> }

\* what a call yields: a string, a boolean, or one of the two errors
OString(str) == [kind |-> "string", b |-> FALSE, s |-> str]

OBoolean(b) == [kind |-> "boolean", b |-> b, s |-> <<>>]

OFormatError == [kind |-> "format_error", b |-> FALSE, s |-> <<>>]

OKdfError == [kind |-> "kdf_error", b |-> FALSE, s |-> <<>>]

ONone == [kind |-> "none", b |-> FALSE, s |-> <<>>]

\* new Buffer(derivedKey, 'binary').toString('base64'): a copy of the
\* Buffer, then its base64 text
EncodeKey(key) == Base64(key)

\* an encryption that records the salt length as the key length
encryptPasswordSyncSaltLength(self, password, seed) ==
  LET randomSalt == uid(self.saltLength, seed)
      dk == pbkdf2Sync(password, randomSalt, self.iterations,
                       self.derivedKeyLength, self.digest)
  IN  IF dk.err THEN OKdfError
      ELSE OString(serializeEncryptedPassword(
             [ salt             |-> randomSalt,
               iterations       |-> self.iterations,
               derivedKeyLength |-> self.saltLength,
               derivedKey       |-> EncodeKey(dk.key) ]))

\* NodePbkdf2.prototype.encryptPasswordSync, with the entropy it draws
encryptPasswordSync(self, password, seed) ==
  LET randomSalt == uid(self.saltLength, seed)
      dk == pbkdf2Sync(password, randomSalt, self.iterations,
                       self.derivedKeyLength, self.digest)
  IN  IF dk.err THEN OKdfError
      ELSE OString(serializeEncryptedPassword(
             [ salt             |-> randomSalt,
               iterations       |-> self.iterations,
               derivedKeyLength |-> self.derivedKeyLength,
               derivedKey       |-> EncodeKey(dk.key) ]))

\* a test that leaves the key length out
RightFormatNoKeyLength(e) ==
  /\ TruthyStr(e.salt)
  /\ TruthyStr(e.derivedKey)
  /\ TruthyNum(e.iterations)

\* the test of line 115 / 141 on the deserialized record
RightFormat(e) ==
  /\ TruthyStr(e.salt)
  /\ TruthyStr(e.derivedKey)
  /\ TruthyNum(e.iterations)
  /\ TruthyNum(e.derivedKeyLength)

\* a comparison with the condition inverted
KeyMatchesInverted(key, e) == EncodeKey(key) # e.derivedKey.s

\* the comparison of line 121 / 146
KeyMatches(key, e) == EncodeKey(key) = e.derivedKey.s

\* a check that derives with the hasher's own iterations and key length
checkPasswordSyncOwnSettings(self, password, encryptedPassword) ==
  LET e == deserializeEncryptedPassword(encryptedPassword)
  IN  IF ~RightFormat(e)
        THEN [outcome |-> OFormatError, kdf |-> FALSE, wrote |-> FALSE, key |-> <<>>]
      ELSE LET dk == pbkdf2Sync(password, e.salt.s, self.iterations,
                                self.derivedKeyLength, self.digest)
           IN  IF dk.err
                 THEN [outcome |-> OKdfError, kdf |-> TRUE, wrote |-> FALSE, key |-> <<>>]
                 ELSE [outcome |-> OBoolean(KeyMatches(dk.key, e)),
                       kdf |-> TRUE, wrote |-> TRUE, key |-> dk.key]

\* NodePbkdf2.prototype.checkPasswordSync: its outcome, whether it called
\* the derivation, and what it assigned to the undeclared variable
\* derivedKey (line 144), if it got that far
checkPasswordSync(self, password, encryptedPassword) ==
  LET e == deserializeEncryptedPassword(encryptedPassword)
  IN  IF ~RightFormat(e)
        THEN [outcome |-> OFormatError, kdf |-> FALSE, wrote |-> FALSE, key |-> <<>>]
      ELSE LET dk == pbkdf2Sync(password, e.salt.s, e.iterations.n,
                                e.derivedKeyLength.n, self.digest)
           IN  IF dk.err
                 THEN [outcome |-> OKdfError, kdf |-> TRUE, wrote |-> FALSE, key |-> <<>>]
                 ELSE [outcome |-> OBoolean(KeyMatches(dk.key, e)),
                       kdf |-> TRUE, wrote |-> TRUE, key |-> dk.key]

----------------------------------------------------------------------------
(* The calls.  calls is the sequence of the calls made so far; a call of   *)
(* a blocking form is appended already returned or thrown, a call of a     *)
(* non-blocking form is appended as its promise stands when the executor   *)
(* returns, and is settled by the derivation's callback.                   *)

NoJob == [password |-> <<>>, salt |-> <<>>, iterations |-> 0, keylen |-> 0, digest |-> ""]

NoSeed == <<0, 0>>

\* op: "encrypt" | "check"; form: "sync" | "async"; state: "pending" |
\* "resolved" (returned) | "rejected" (threw); kdf: the derivation was
\* called; settles: how often resolve or reject was called; job: the
\* arguments handed to crypto.pbkdf2; stored: the record's derivedKey
\* field the callback's closure keeps
Call(op, form, h, password, enc, seed, state, outcome, kdf, settles, job, stored) ==
  [ op |-> op, form |-> form, h |-> h, password |-> password, enc |-> enc,
    seed |-> seed, state |-> state, outcome |-> outcome, kdf |-> kdf,
    settles |-> settles, job |-> job, stored |-> stored ]

StateOf(outcome) ==
  IF outcome.kind \in {"string", "boolean"} THEN "resolved" ELSE "rejected"

\* encryptPasswordSync(password) on hasher h
EncryptPasswordSync(h, password, seed) ==
  LET out == encryptPasswordSync(hashers[h], password, seed)
  IN  /\ Len(calls) < MaxCalls
      /\ calls' = Append(calls,
                    Call("encrypt", "sync", h, password, <<>>, seed,
                         StateOf(out), out, TRUE, 0, NoJob, <<>>))
      /\ UNCHANGED <<hashers, derivedKey, uidv, codec>>

\* checkPasswordSync(password, encryptedPassword) on hasher h
CheckPasswordSync(h, password, encryptedPassword) ==
  LET r == checkPasswordSync(hashers[h], password, encryptedPassword)
  IN  /\ Len(calls) < MaxCalls
      /\ calls' = Append(calls,
                    Call("check", "sync", h, password, encryptedPassword, NoSeed,
                         StateOf(r.outcome), r.outcome, r.kdf, 0, NoJob, <<>>))
      /\ derivedKey' = IF r.wrote THEN [def |-> TRUE, key |-> r.key] ELSE derivedKey
      /\ UNCHANGED <<hashers, uidv, codec>>

\* encryptPassword(password) on hasher h: the promise's executor (lines
\* 70-72).  crypto.pbkdf2 throws on bad arguments, which rejects the
\* promise; otherwise the derivation is in flight
EncryptPassword(h, password, seed) ==
  LET self == hashers[h]
      randomSalt == uid(self.saltLength, seed)
      job == [ password |-> password, salt |-> randomSalt,
               iterations |-> self.iterations, keylen |-> self.derivedKeyLength,
               digest |-> self.digest ]
  IN  /\ Len(calls) < MaxCalls
      /\ calls' = Append(calls,
                    IF Pbkdf2ArgsOk(job.iterations, job.keylen, job.digest)
                      THEN Call("encrypt", "async", h, password, <<>>, seed,
                                "pending", ONone, TRUE, 0, job, <<>>)
                      ELSE Call("encrypt", "async", h, password, <<>>, seed,
                                "rejected", OKdfError, TRUE, 1, NoJob, <<>>))
      /\ UNCHANGED <<hashers, derivedKey, uidv, codec>>

\* checkPassword(password, encryptedPassword) on hasher h: the promise's
\* executor (lines 113-118)
CheckPassword(h, password, encryptedPassword) ==
  LET self == hashers[h]
      e == deserializeEncryptedPassword(encryptedPassword)
      job == [ password |-> password, salt |-> e.salt.s,
               iterations |-> e.iterations.n, keylen |-> e.derivedKeyLength.n,
               digest |-> self.digest ]
  IN  /\ Len(calls) < MaxCalls
      /\ calls' = Append(calls,
                    IF ~RightFormat(e)
                      THEN Call("check", "async", h, password, encryptedPassword, NoSeed,
                                "rejected", OFormatError, FALSE, 1, NoJob, <<>>)
                    ELSE IF Pbkdf2ArgsOk(job.iterations, job.keylen, job.digest)
                      THEN Call("check", "async", h, password, encryptedPassword, NoSeed,
                                "pending", ONone, TRUE, 0, job, e.derivedKey.s)
                      ELSE Call("check", "async", h, password, encryptedPassword, NoSeed,
                                "rejected", OKdfError, TRUE, 1, NoJob, <<>>))
      /\ UNCHANGED <<hashers, derivedKey, uidv, codec>>

\* the callback of encryptPassword's derivation (lines 72-80); it reads
\* the hasher's iterations and derivedKeyLength when it runs
EncryptCallbackOutcome(self, c, dk) ==
  IF dk.err THEN OKdfError
  ELSE OString(serializeEncryptedPassword(
         [ salt             |-> c.job.salt,
           iterations       |-> self.iterations,
           derivedKeyLength |-> self.derivedKeyLength,
           derivedKey       |-> EncodeKey(dk.key) ]))

\* a callback that rejects on a key that does not match
CheckCallbackRejectsMismatch(c, dk) ==
  IF dk.err THEN OKdfError
  ELSE IF EncodeKey(dk.key) = c.stored THEN OBoolean(TRUE) ELSE OKdfError

\* the callback of checkPassword's derivation (lines 118-126)
CheckCallbackOutcome(c, dk) ==
  IF dk.err THEN OKdfError
  ELSE IF EncodeKey(dk.key) = c.stored THEN OBoolean(TRUE) ELSE OBoolean(FALSE)

\* the derivation of call i completes and its callback runs
Pbkdf2Callback(i) ==
  /\ i \in DOMAIN calls
  /\ calls[i].state = "pending"
  /\ LET c   == calls[i]
         dk  == pbkdf2Sync(c.job.password, c.job.salt, c.job.iterations,
                           c.job.keylen, c.job.digest)
         out == IF c.op = "encrypt"
                  THEN EncryptCallbackOutcome(hashers[c.h], c, dk)
                  ELSE CheckCallbackOutcome(c, dk)
     IN  calls' = [calls EXCEPT ![i] =
                     [c EXCEPT !.state = StateOf(out), !.outcome = out,
                               !.settles = c.settles + 1]]
  /\ UNCHANGED <<hashers, derivedKey, uidv, codec>>

----------------------------------------------------------------------------
(* The hashers' specification *)

NotWritten == [def |-> FALSE, key |-> <<>>]

UidIdle == [called |-> FALSE, len |-> 0, out |-> <<>>]

CodecIdle ==
  [ pc |-> "idle",
    rec |-> [salt |-> <<>>, derivedKey |-> <<>>, derivedKeyLength |-> 0, iterations |-> 0],
    str |-> <<>>,
    out |-> deserializeEncryptedPassword(<<>>) ]

\* two hashers are constructed with different options; which of the two
\* is called hasher 1 makes no difference, so the options are drawn in the
\* list's order
Init ==
  /\ \E a \in DOMAIN OptionsList, b \in DOMAIN OptionsList :
       /\ a < b
       /\ hashers = [h \in HasherIds |->
                       NodePbkdf2(OptionsList[IF h = 1 THEN a ELSE b])]
  /\ calls = <<>>
  /\ derivedKey = NotWritten
  /\ uidv = UidIdle
  /\ codec = CodecIdle

\* the strings encryptPassword / encryptPasswordSync have yielded so far
Encrypted ==
  { calls[i].outcome.s : i \in { j \in DOMAIN calls :
       calls[j].op = "encrypt" /\ calls[j].outcome.kind = "string" } }

Next ==
  \/ \E h \in HasherIds, password \in Passwords, seed \in Seeds :
       EncryptPasswordSync(h, password, seed)
  \/ \E h \in HasherIds, password \in Passwords, seed \in Seeds :
       EncryptPassword(h, password, seed)
  \/ \E h \in HasherIds, password \in Passwords, enc \in Encrypted :
       CheckPasswordSync(h, password, enc)
  \/ \E h \in HasherIds, password \in Passwords, enc \in Encrypted :
       CheckPassword(h, password, enc)
  \/ \E i \in DOMAIN calls : Pbkdf2Callback(i)

Spec == Init /\ [][Next]_vars

----------------------------------------------------------------------------
(* The verification of one given string: check is called once, on a string *)
(* assembled from fields that are empty, well formed or malformed.         *)

\* a derived key as a record holds it: that of password "pw", salt "Zm",
\* 3 iterations, 3 bytes, sha512
GivenKey == EncodeKey(pbkdf2Sync(<<"p", "w">>, <<"Z", "m">>, 3, 3, "sha512").key)

SaltFields == { <<>>, <<"Z", "m">> }

KeyFields == { <<>>, <<"A", "A", "A", "A">>, GivenKey }

NumberFields == { <<>>, <<"0">>, <<"3">>, <<"x">>, <<"3", "x">>, <<"-", "1">> }

RECURSIVE Join(_)
Join(fields) ==
  IF Len(fields) = 0 THEN <<>>
  ELSE IF Len(fields) = 1 THEN fields[1]
  ELSE fields[1] \o Sep \o Join(Tail(fields))

\* four fields, the first k of them, and five
GivenInputs ==
  LET four == { <<s, k, l, n>> : s \in SaltFields, k \in KeyFields,
                                 l \in NumberFields, n \in NumberFields }
  IN  { Join(SubSeq(f, 1, k)) : f \in four, k \in 0..4 }
      \cup { Join(f \o << <<"x">> >>) : f \in four }

NextGiven ==
  \/ /\ calls = <<>>
     /\ \E h \in HasherIds, password \in Passwords, enc \in GivenInputs :
          CheckPasswordSync(h, password, enc)
  \/ /\ calls = <<>>
     /\ \E h \in HasherIds, password \in Passwords, enc \in GivenInputs :
          CheckPassword(h, password, enc)
  \/ \E i \in DOMAIN calls : Pbkdf2Callback(i)

SpecGiven == Init /\ [][NextGiven]_vars

----------------------------------------------------------------------------
(* The token generator alone *)

\* the static functions need no hasher: both are the default one
InitAlone ==
  /\ hashers = [h \in HasherIds |-> NodePbkdf2(NoOptions)]
  /\ calls = <<>>
  /\ derivedKey = NotWritten
  /\ uidv = UidIdle
  /\ codec = CodecIdle

UidCall(len, seed) ==
  /\ uidv' = [called |-> TRUE, len |-> len, out |-> uid(len, seed)]
  /\ UNCHANGED <<hashers, calls, derivedKey, codec>>

NextUid == \E len \in 0..MaxUidLen, seed \in UidSeeds : UidCall(len, seed)

SpecUid == InitAlone /\ [][NextUid]_vars

----------------------------------------------------------------------------
(* The codec alone: a well-formed record is serialized, then the string is *)
(* deserialized.                                                           *)

Base64Texts ==
  { <<>>, <<"Z", "m">>, <<"a", "+", "/", "9">>,
    <<"e", "r", "w", "r", "w", "/", "+", "9", "9">>,
    <<"A", "A", "=", "=">> }

RecordNumbers == {0, 1, 9, 12, 100, 1000, 10000, 2147483647}

WellFormedRecords ==
  [ salt : Base64Texts, derivedKey : Base64Texts,
    derivedKeyLength : RecordNumbers, iterations : RecordNumbers ]

InitCodec ==
  /\ hashers = [h \in HasherIds |-> NodePbkdf2(NoOptions)]
  /\ calls = <<>>
  /\ derivedKey = NotWritten
  /\ uidv = UidIdle
  /\ \E r \in WellFormedRecords : codec = [CodecIdle EXCEPT !.pc = "record", !.rec = r]

Serialize ==
  /\ codec.pc = "record"
  /\ codec' = [codec EXCEPT !.pc = "serialized",
                            !.str = serializeEncryptedPassword(codec.rec)]
  /\ UNCHANGED <<hashers, calls, derivedKey, uidv>>

Deserialize ==
  /\ codec.pc = "serialized"
  /\ codec' = [codec EXCEPT !.pc = "deserialized",
                            !.out = deserializeEncryptedPassword(codec.str)]
  /\ UNCHANGED <<hashers, calls, derivedKey, uidv>>

NextCodec == Serialize \/ Deserialize

SpecCodec == InitCodec /\ [][NextCodec]_vars

----------------------------------------------------------------------------
(* Properties *)

Settled(c) == c.state # "pending"

EncryptedBy(c) == c.op = "encrypt" /\ c.outcome.kind = "string"

\* call j checked, with the password of call i, the string call i yielded
ChecksRecordOf(j, i) ==
  /\ EncryptedBy(calls[i])
  /\ calls[j].op = "check"
  /\ Settled(calls[j])
  /\ calls[j].enc = calls[i].outcome.s
  /\ calls[j].password = calls[i].password

\* C1: checking a password against the record the same hasher made for it
\* yields true, in both forms and for every configuration and salt.
C1_OwnRecordChecksTrue ==
  \A i \in DOMAIN calls, j \in DOMAIN calls :
    (ChecksRecordOf(j, i) /\ calls[j].h = calls[i].h)
      => calls[j].outcome = OBoolean(TRUE)

C1_Witness ==
  \E i \in DOMAIN calls, j \in DOMAIN calls :
    /\ ChecksRecordOf(j, i) /\ calls[j].h = calls[i].h
    /\ calls[i].form = "async" /\ calls[j].form = "async"
    /\ calls[i].seed # NoSeed
    /\ calls[j].outcome = OBoolean(TRUE)

DifferentSettings(a, b) ==
  /\ a.iterations # b.iterations
  /\ a.saltLength # b.saltLength
  /\ a.derivedKeyLength # b.derivedKeyLength

\* C2: a hasher whose iterations, saltLength and derivedKeyLength all differ
\* from those of the hasher that made a record, but whose digest is the
\* same, checks the right password against that record as true.
C2_OtherHasherSameDigestChecksTrue ==
  \A i \in DOMAIN calls, j \in DOMAIN calls :
    ( /\ ChecksRecordOf(j, i)
      /\ DifferentSettings(hashers[calls[j].h], hashers[calls[i].h])
      /\ hashers[calls[j].h].digest = hashers[calls[i].h].digest )
      => calls[j].outcome = OBoolean(TRUE)

C2_Witness ==
  \E i \in DOMAIN calls, j \in DOMAIN calls :
    /\ ChecksRecordOf(j, i)
    /\ DifferentSettings(hashers[calls[j].h], hashers[calls[i].h])
    /\ hashers[calls[j].h].digest = hashers[calls[i].h].digest
    /\ calls[j].outcome = OBoolean(TRUE)

\* C3: a record is self-describing: whatever hasher checks the right
\* password against it, of whatever configuration and digest, the check
\* yields true.
C3_AnyHasherChecksTrue ==
  \A i \in DOMAIN calls, j \in DOMAIN calls :
    ChecksRecordOf(j, i) => calls[j].outcome = OBoolean(TRUE)

\* the decoded form lacks a field, or holds an empty, non-numeric or zero one
Malformed(e) ==
  \/ ~e.salt.def \/ e.salt.s = <<>>
  \/ ~e.derivedKey.def \/ e.derivedKey.s = <<>>
  \/ e.derivedKeyLength.nan \/ e.derivedKeyLength.n = 0
  \/ e.iterations.nan \/ e.iterations.n = 0

\* C4: a check of a string whose decoded form is malformed fails with the
\* format error, in both forms, yields no boolean and starts no derivation.
C4_MalformedIsFormatError ==
  \A i \in DOMAIN calls :
    (calls[i].op = "check" /\ Malformed(deserializeEncryptedPassword(calls[i].enc)))
      => /\ calls[i].state = "rejected"
         /\ calls[i].outcome = OFormatError
         /\ ~calls[i].kdf

C4_Witness ==
  \E i \in DOMAIN calls :
    LET e == deserializeEncryptedPassword(calls[i].enc)
    IN  /\ calls[i].op = "check" /\ calls[i].form = "async"
        /\ TruthyStr(e.salt) /\ TruthyStr(e.derivedKey)
        /\ TruthyNum(e.iterations) /\ e.derivedKeyLength = Num(0)
        /\ calls[i].outcome = OFormatError

\* the key the library derives for call i from the record's own salt,
\* iterations and key length under the checking hasher's digest
Rederived(i) ==
  LET e == deserializeEncryptedPassword(calls[i].enc)
  IN  pbkdf2Sync(calls[i].password, e.salt.s, e.iterations.n,
                 e.derivedKeyLength.n, hashers[calls[i].h].digest)

\* C5: for a well-formed record whose key the library re-derives, a settled
\* check is a boolean, never an error: true exactly when the base64 text of
\* the re-derived key equals the stored derivedKey field, false otherwise.
C5_MismatchIsFalse ==
  \A i \in DOMAIN calls :
    LET e == deserializeEncryptedPassword(calls[i].enc)
    IN  ( /\ calls[i].op = "check" /\ Settled(calls[i])
          /\ ~Malformed(e) /\ ~Rederived(i).err )
          => /\ calls[i].state = "resolved"
             /\ calls[i].outcome.kind = "boolean"
             /\ calls[i].outcome.b <=> (Base64(Rederived(i).key) = e.derivedKey.s)

C5_Witness ==
  \E i \in DOMAIN calls :
    LET e == deserializeEncryptedPassword(calls[i].enc)
    IN  /\ calls[i].op = "check" /\ Settled(calls[i])
        /\ ~Malformed(e) /\ ~Rederived(i).err
        /\ e.derivedKey.s = GivenKey
        /\ calls[i].outcome = OBoolean(FALSE)

\* C6: deserializing the serialization of a well-formed record yields a
\* record of exactly the four fields, with the same strings and integers.
C6_RoundTrip ==
  codec.pc = "deserialized"
    => /\ DOMAIN codec.out = {"salt", "derivedKey", "derivedKeyLength", "iterations"}
       /\ codec.out.salt = Str(codec.rec.salt)
       /\ codec.out.derivedKey = Str(codec.rec.derivedKey)
       /\ codec.out.derivedKeyLength = Num(codec.rec.derivedKeyLength)
       /\ codec.out.iterations = Num(codec.rec.iterations)

C6_Witness ==
  /\ codec.pc = "deserialized"
  /\ codec.rec.salt = <<"e", "r", "w", "r", "w", "/", "+", "9", "9">>
  /\ codec.rec.derivedKeyLength = 12
  /\ codec.rec.iterations = 1000
  /\ codec.out.iterations = Num(1000)

\* C7: a string encrypt yields is four '::'-separated fields, the salt
\* first, then the key, the key length and the iterations; its salt has the
\* hasher's saltLength characters and its two numbers are the hasher's.
C7_EncryptedRecordShape ==
  \A i \in DOMAIN calls :
    EncryptedBy(calls[i]) =>
      LET self  == hashers[calls[i].h]
          items == Split(calls[i].outcome.s)
          e     == deserializeEncryptedPassword(calls[i].outcome.s)
      IN  /\ Len(items) = 4
          /\ Len(e.salt.s) = self.saltLength
          /\ e.iterations = Num(self.iterations)
          /\ e.derivedKeyLength = Num(self.derivedKeyLength)
          /\ items[1] = uid(self.saltLength, calls[i].seed)
          /\ items[3] = NumberToString(self.derivedKeyLength)
          /\ items[4] = NumberToString(self.iterations)
          /\ Len(items[2]) = 4 * ((self.derivedKeyLength + 2) \div 3)

C7_Witness ==
  \E i \in DOMAIN calls :
    /\ EncryptedBy(calls[i]) /\ calls[i].form = "async"
    /\ hashers[calls[i].h] = NodePbkdf2(NoOptions)
    /\ Len(Split(calls[i].outcome.s)[1]) = 12

\* C8: uid(L) is a string of exactly L characters.
C8_UidLength == uidv.called => Len(uidv.out) = uidv.len

C8_Witness == uidv.called /\ uidv.len = 13 /\ Len(uidv.out) = 13

\* what call i yields when it runs alone: the blocking form's outcome on
\* the same hasher, password, string and entropy
Alone(i) ==
  IF calls[i].op = "encrypt"
    THEN encryptPasswordSync(hashers[calls[i].h], calls[i].password, calls[i].seed)
    ELSE checkPasswordSync(hashers[calls[i].h], calls[i].password, calls[i].enc).outcome

\* C9: no call writes a variable visible outside it, and every call, however
\* the calls interleave, yields what it yields alone.
C9_NoSharedMutableState ==
  /\ derivedKey = NotWritten
  /\ \A i \in DOMAIN calls : Settled(calls[i]) => calls[i].outcome = Alone(i)

\* C10: a promise settles at most once, and when it has settled it resolved
\* to what the blocking form returns on the same inputs (and entropy), or
\* rejected where the blocking form throws, with the same kind of error.
C10_FormsAgree ==
  \A i \in DOMAIN calls :
    calls[i].form = "async" =>
      /\ calls[i].settles <= 1
      /\ Settled(calls[i]) <=> calls[i].settles = 1
      /\ Settled(calls[i]) =>
           /\ calls[i].outcome = Alone(i)
           /\ calls[i].state = StateOf(Alone(i))

C10_Witness ==
  \E i \in DOMAIN calls, j \in DOMAIN calls :
    /\ calls[i].form = "async" /\ calls[i].op = "encrypt" /\ calls[i].state = "resolved"
    /\ calls[j].form = "async" /\ calls[j].op = "check" /\ calls[j].state = "resolved"
    /\ calls[j].outcome = OBoolean(FALSE)

====
